---------------------------- MODULE Spec2Model ----------------------------
(***************************************************************************)
(* A model of curl++ (src/src/curl++.h, src/src/curl++.cpp): the RAII      *)
(* wrappers curl::easy, curl::list and curl::error around libcurl.         *)
(*                                                                         *)
(* libcurl itself is the environment.  Each call into it is an operator    *)
(* named after the libcurl function, modelled by its documented contract,  *)
(* with its possible results (success, an error code, a null pointer)      *)
(* drawn nondeterministically by the action that makes the call.           *)
(*                                                                         *)
(* The module holds five specifications over one set of variables:         *)
(*   SpecEasy  ownership of native easy handles (construct, move, swap,    *)
(*             duplicate, set, reset, destroy);                            *)
(*   SpecRecv  one easy handle receiving transfers into sinks;             *)
(*   SpecGet   the same, into std::string sinks only;                      *)
(*   SpecList  curl::list;                                                 *)
(*   SpecCheck the CHECK macro, curl::error and add_cookie.                *)
(***************************************************************************)
EXTENDS Integers, Sequences, FiniteSets, TLC

VARIABLES
    constructed,  \* the curl::easy objects that exist
    handle_,      \* easy::handle_ of each object
    native,       \* libcurl's easy handles: state, cleanup calls, options
    lastE,        \* the last operation on curl::easy objects and its outcome
    opts,         \* SpecRecv: CURLOPT_WRITEDATA and CURLOPT_WRITEFUNCTION of the handle
    buffer,       \* SpecRecv: the caller's std::string
    stream,       \* SpecRecv: the caller's std::ostream
    file,         \* SpecRecv: the caller's FILE
    lastR,        \* SpecRecv: the last call on the handle and what it did
    list_,        \* SpecList: list::list_ of the one curl::list object
    slists,       \* SpecList: libcurl's string lists, by their head
    appended,     \* SpecList: the values appended to the object so far
    lastL,        \* SpecList: the last operation on the object
    cookielist,   \* SpecCheck: the cookie lines the handle has accepted
    lastC         \* SpecCheck: the last checked call and what it raised

easyVars == <<constructed, handle_, native, lastE>>
recvVars == <<opts, buffer, stream, file, lastR>>
listVars == <<list_, slists, appended, lastL>>
checkVars == <<cookielist, lastC>>

\* what each specification leaves alone
notEasy == <<recvVars, listVars, checkVars>>
notRecv == <<easyVars, listVars, checkVars>>
notList == <<easyVars, recvVars, checkVars>>
notCheck == <<easyVars, recvVars, listVars>>

vars == <<constructed, handle_, native, lastE, opts, buffer, stream, file, lastR,
          list_, slists, appended, lastL, cookielist, lastC>>

---------------------------------------------------------------------------
(* Bounds *)

\* curl::easy objects in the program
MaxEasy == 2
\* native handles libcurl can hand out
MaxHandles == 2
\* curl_easy_cleanup calls explored per native handle
MaxCleanups == 2
\* largest option value
MaxVal == 1
\* bytes libcurl delivers in one transfer
MaxBytes == 2
\* bytes the caller's std::string is let grow to
MaxBuf == 3
\* bytes the caller's stream and FILE have room for
MaxRoom == 1
\* string lists libcurl can allocate
MaxLists == 2
\* values appended to a curl::list
MaxAppends == 3
\* name->value pairs in a cookie map
MaxPairs == 2

\* nullptr
NULL == 0
\* CURLE_OK, and a CURLcode other than CURLE_OK
CURLE_OK == 0
CURLE_FAILED == 1
\* CURLE_WRITE_ERROR, libcurl's code for a write callback that returned short
CURLE_WRITE_ERROR == 23

EasyIds == 1..MaxEasy
Handles == 1..MaxHandles
Values == 0..MaxVal

\* The configuration of a handle is the value of one option; a handle fresh
\* from curl_easy_init or curl_easy_reset holds the default.
DefaultConfig == 0

Bytes == {"a", "b"}

\* the sequences over S of length at most n
SeqsUpTo(S, n) == UNION {[1..k -> S] : k \in 0..n}

\* the concatenation of a sequence of sequences
Flatten(t) ==
    LET cat[i \in 0..Len(t)] == IF i = 0 THEN <<>> ELSE cat[i - 1] \o t[i]
    IN cat[Len(t)]

\* the bytes b cut into chunks after each position of cuts
Split(b, cuts) ==
    LET ends == IF b = <<>> THEN {} ELSE cuts \cup {Len(b)}
        endOf(i) == CHOOSE e \in ends : Cardinality({x \in ends : x <= e}) = i
    IN [i \in 1..Cardinality(ends) |->
            SubSeq(b, IF i = 1 THEN 1 ELSE endOf(i - 1) + 1, endOf(i))]

\* What libcurl may deliver in one transfer: a sequence of non-empty chunks
\* of bytes of B, MaxBytes bytes in all at most.
TransfersOf(B) ==
    UNION {{Split(b, cuts) : cuts \in SUBSET (1..(Len(b) - 1))} :
            b \in SeqsUpTo(B, MaxBytes)}

\* The sinks a handle can point at.  "stdout" is libcurl's default
\* CURLOPT_WRITEDATA; "local" is the std::string local to easy::get.
SinkKind(sink) ==
    CASE sink = "stdout" -> "file"
      [] sink = "file"   -> "file"
      [] sink = "buffer" -> "string"
      [] sink = "local"  -> "string"
      [] sink = "stream" -> "stream"

\* The write callbacks.  "default" is libcurl's own, which fwrite()s.
FuncKind(fn) ==
    CASE fn = "default" -> "file"
      [] fn = "recv_into_writefunc_file_"   -> "file"
      [] fn = "recv_into_writefunc_string_" -> "string"
      [] fn = "recv_into_writefunc_stream_" -> "stream"

\* the options of a handle fresh from curl_easy_init or curl_easy_reset
DefaultOpts == [writedata |-> "stdout", writefunc |-> "default"]

\* lastR before any call
NoCall ==
    [op |-> "none", outcome |-> "ok", setopt |-> <<>>, ran |-> FALSE,
     matched |-> TRUE, delivered |-> <<>>, ret |-> <<>>,
     short |-> FALSE, exact |-> TRUE, stale |-> FALSE]

\* a fresh handle; the caller's sinks empty, with room for MaxRoom bytes
RecvStart ==
    /\ opts = DefaultOpts
    /\ buffer = <<>>
    /\ stream = [room |-> MaxRoom, bad |-> FALSE]
    /\ file = [room |-> MaxRoom]
    /\ lastR = NoCall

ListIds == 1..MaxLists
HeaderValues == {"a", "b"}

\* list::list(): list_(nullptr); libcurl has allocated no list
ListStart ==
    /\ list_ = NULL
    /\ slists = [c \in ListIds |-> [state |-> "unused", items |-> <<>>]]
    /\ appended = <<>>
    /\ lastL = [op |-> "list()", ok |-> TRUE]

\* no checked call made yet on the handle, no cookie accepted
NoCheck ==
    [op |-> "none", code |-> CURLE_OK, raised |-> FALSE, what |-> <<>>,
     map |-> <<>>, cookie |-> <<>>, calls |-> <<>>]

CheckStart ==
    /\ cookielist = {}
    /\ lastC = NoCheck

---------------------------------------------------------------------------
(* libcurl, as curl::easy calls it *)

\* Handles are numbered in the order libcurl hands them out: the next one is
\* the lowest not handed out yet (none when the pool is exhausted).
Fresh ==
    LET unused == {h \in Handles : native[h].state = "unused"} IN
    {h \in unused : \A g \in unused : h <= g}

\* curl_easy_init(): a handle never handed out before, or null
curl_easy_init == Fresh \cup {NULL}

\* curl_easy_duphandle(h): a new handle carrying h's options, or null
curl_easy_duphandle(h) == Fresh \cup {NULL}

\* the native table after libcurl hands out g with configuration cfg
Allocated(g, cfg) ==
    [native EXCEPT ![g] = [state |-> "live", cleanups |-> 0, config |-> cfg]]

\* curl_easy_cleanup(h): releases h and all it holds; on null it does nothing
curl_easy_cleanup(h) ==
    IF h = NULL THEN native
    ELSE [native EXCEPT ![h] = [state |-> "released",
                                cleanups |-> @.cleanups + 1,
                                config |-> DefaultConfig]]

\* curl_easy_setopt(h, option, v) returning code: v is stored on success
curl_easy_setopt(h, v, code) ==
    IF code # CURLE_OK THEN native
    ELSE [native EXCEPT ![h].config = v]

\* curl_easy_reset(h): all options back to their defaults
curl_easy_reset(h) == [native EXCEPT ![h].config = DefaultConfig]

---------------------------------------------------------------------------
(* curl::easy *)

\* CHECK(x): throws when the call's code is not CURLE_OK
CHECK(code) == code # CURLE_OK

EasyCtor_Unchecked(p) == [raised |-> FALSE, handle |-> p]

\* easy::easy() and easy::easy(CURL*): throw on a null handle
EasyCtor(p) ==
    IF p = NULL THEN [raised |-> TRUE, handle |-> NULL]
    ELSE [raised |-> FALSE, handle |-> p]

\* easy(easy&&) = default and operator=(easy&&) = default: memberwise move of
\* the one member, a raw pointer, which copies it and leaves the source as is
EasyMove(dst, src) == [handle_ EXCEPT ![dst] = handle_[src]]

\* easy::swap
EasySwap(a, b) == [handle_ EXCEPT ![a] = handle_[b], ![b] = handle_[a]]

EasyDuplicate_Shallow(h, g) == EasyCtor(h)

\* easy::duplicate, g being what curl_easy_duphandle(handle_) returned
EasyDuplicate(h, g) == EasyCtor(g)

\* a member call is explored on an object whose native handle is live;
\* libcurl leaves a call on a released handle undefined
Usable(w) ==
    /\ w \in constructed
    /\ handle_[w] # NULL
    /\ native[handle_[w]].state = "live"

\* the curl_easy_cleanup calls made so far on what p points to
Cleanups(p) == IF p = NULL THEN 0 ELSE native[p].cleanups

\* lastE for an operation op on object w
Did(op, w, src, p, raised) ==
    [op |-> op, w |-> w, src |-> src, p |-> p, raised |-> raised]

\* no curl::easy object yet, no native handle handed out
EasyStart ==
    /\ constructed = {}
    /\ handle_ = [w \in EasyIds |-> NULL]
    /\ native = [h \in Handles |->
                    [state |-> "unused", cleanups |-> 0, config |-> DefaultConfig]]
    /\ lastE = Did("none", 0, 0, NULL, FALSE)

InitEasy == EasyStart /\ RecvStart /\ ListStart /\ CheckStart

\* easy e;
Construct(w) ==
    /\ UNCHANGED notEasy
    /\ w \notin constructed
    /\ \E p \in curl_easy_init :
        LET r == EasyCtor(p) IN
        /\ lastE' = Did("easy()", w, 0, p, r.raised)
        /\ constructed' = IF r.raised THEN constructed ELSE constructed \cup {w}
        /\ handle_' = IF r.raised THEN handle_ ELSE [handle_ EXCEPT ![w] = r.handle]
        /\ native' = IF p = NULL THEN native ELSE Allocated(p, DefaultConfig)

\* easy e(p); with p null or a handle the caller got from curl_easy_init
ConstructFrom(w) ==
    /\ UNCHANGED notEasy
    /\ w \notin constructed
    /\ \E p \in curl_easy_init :
        LET r == EasyCtor(p) IN
        /\ lastE' = Did("easy(CURL*)", w, 0, p, r.raised)
        /\ constructed' = IF r.raised THEN constructed ELSE constructed \cup {w}
        /\ handle_' = IF r.raised THEN handle_ ELSE [handle_ EXCEPT ![w] = r.handle]
        /\ native' = IF p = NULL THEN native ELSE Allocated(p, DefaultConfig)

\* easy dst(std::move(src));
MoveConstruct(dst, src) ==
    /\ UNCHANGED notEasy
    /\ dst \notin constructed
    /\ src \in constructed
    /\ constructed' = constructed \cup {dst}
    /\ handle_' = EasyMove(dst, src)
    /\ lastE' = Did("move-construct", dst, src, NULL, FALSE)
    /\ UNCHANGED native

\* dst = std::move(src);
MoveAssign(dst, src) ==
    /\ UNCHANGED notEasy
    /\ dst \in constructed
    /\ src \in constructed
    /\ dst # src
    /\ handle_' = EasyMove(dst, src)
    /\ lastE' = Did("move-assign", dst, src, NULL, FALSE)
    /\ UNCHANGED <<constructed, native>>

\* a.swap(b);
Swap(a, b) ==
    /\ UNCHANGED notEasy
    /\ a \in constructed
    /\ b \in constructed
    /\ a < b
    /\ handle_' = EasySwap(a, b)
    /\ lastE' = Did("swap", a, b, NULL, FALSE)
    /\ UNCHANGED <<constructed, native>>

\* easy::~easy
Destroy(w) ==
    /\ UNCHANGED notEasy
    /\ w \in constructed
    /\ Cleanups(handle_[w]) < MaxCleanups
    /\ native' = curl_easy_cleanup(handle_[w])
    /\ constructed' = constructed \ {w}
    /\ handle_' = [handle_ EXCEPT ![w] = NULL]
    /\ lastE' = Did("~easy", w, 0, NULL, FALSE)

\* e.set(option, value); and e.add_cookie(cookie);
Set(w) ==
    /\ UNCHANGED notEasy
    /\ Usable(w)
    /\ \E v \in Values, code \in {CURLE_OK, CURLE_FAILED} :
        /\ native' = curl_easy_setopt(handle_[w], v, code)
        /\ lastE' = Did("set", w, 0, NULL, CHECK(code))
    /\ UNCHANGED <<constructed, handle_>>

\* e.reset();
Reset(w) ==
    /\ UNCHANGED notEasy
    /\ Usable(w)
    /\ native' = curl_easy_reset(handle_[w])
    /\ lastE' = Did("reset", w, 0, NULL, FALSE)
    /\ UNCHANGED <<constructed, handle_>>

\* easy dst = src.duplicate();
Duplicate(dst, src) ==
    /\ UNCHANGED notEasy
    /\ dst \notin constructed
    /\ Usable(src)
    /\ \E g \in curl_easy_duphandle(handle_[src]) :
        LET r == EasyDuplicate(handle_[src], g) IN
        /\ lastE' = Did("duplicate", dst, src, g, r.raised)
        /\ constructed' = IF r.raised THEN constructed ELSE constructed \cup {dst}
        /\ handle_' = IF r.raised THEN handle_ ELSE [handle_ EXCEPT ![dst] = r.handle]
        /\ native' = IF g = NULL THEN native
                     ELSE Allocated(g, native[handle_[src]].config)

NextEasy ==
    \/ \E w \in EasyIds : Construct(w)
    \/ \E w \in EasyIds : ConstructFrom(w)
    \/ \E d, s \in EasyIds : MoveConstruct(d, s)
    \/ \E d, s \in EasyIds : MoveAssign(d, s)
    \/ \E a, b \in EasyIds : Swap(a, b)
    \/ \E w \in EasyIds : Destroy(w)
    \/ \E w \in EasyIds : Set(w)
    \/ \E w \in EasyIds : Reset(w)
    \/ \E d, s \in EasyIds : Duplicate(d, s)

SpecEasy == InitEasy /\ [][NextEasy]_vars

---------------------------------------------------------------------------
(* Claims about the ownership of native handles, under SpecEasy *)

\* C1: over any sequence of construct, move-construct, move-assign, swap and
\* destroy operations, no native handle is passed to curl_easy_cleanup more
\* than once.
C1_NoDoubleCleanup == \A h \in Handles : native[h].cleanups <= 1

\* the objects whose construction acquires a native handle
Acquiring == {"easy()", "easy(CURL*)", "duplicate"}

\* C6: constructing from a null native handle (directly, by default
\* construction, or through duplicate) raises and yields no object;
\* constructing from a valid handle never fails and yields an object owning
\* it; every existing object holds a non-null handle.
C6_NullRaisesAndHandleNonNull ==
    /\ \A w \in constructed : handle_[w] # NULL
    /\ (lastE.op \in Acquiring /\ lastE.p = NULL) =>
            (lastE.raised /\ lastE.w \notin constructed)
    /\ (lastE.op \in Acquiring /\ lastE.p # NULL) =>
            (~lastE.raised /\ lastE.w \in constructed /\ handle_[lastE.w] = lastE.p)

\* a clone failed, raised, and left the original in place
C6_Witness ==
    /\ lastE.op = "duplicate"
    /\ lastE.p = NULL
    /\ lastE.raised
    /\ lastE.src \in constructed

\* what one step of duplicate, set, reset or ~easy may change
C7_Step ==
    /\ (lastE'.op = "duplicate" /\ ~lastE'.raised) =>
        /\ handle_'[lastE'.w] # handle_'[lastE'.src]
        /\ handle_'[lastE'.src] = handle_[lastE'.src]
        /\ \A h \in Handles : native[h].state # "unused" => native'[h] = native[h]
        /\ native'[handle_'[lastE'.w]].state = "live"
        /\ native'[handle_'[lastE'.w]].config = native[handle_[lastE'.src]].config
    /\ lastE'.op \in {"set", "reset", "~easy"} =>
        \A h \in Handles \ {handle_[lastE'.w]} : native'[h] = native[h]

\* C7: duplicate() returns an object owning a native handle distinct from the
\* original's, carrying the original's configuration, and leaves the original's
\* handle and configuration unchanged; set, add_cookie, reset and destruction
\* of an object touch that object's native handle only.
C7_DuplicateIndependent == [][C7_Step]_vars

\* a configured handle was duplicated
C7_Witness ==
    /\ lastE.op = "duplicate"
    /\ ~lastE.raised
    /\ native[handle_[lastE.src]].config # DefaultConfig
    /\ native[handle_[lastE.w]].config = native[handle_[lastE.src]].config

---------------------------------------------------------------------------
(* Receiving a transfer: easy::perform, easy::get, easy::recv_into *)

\* std::ostream::write of n bytes: a stream in a failed state takes nothing;
\* one that runs out of room takes what fits and goes bad
ostream_write(st, n) ==
    IF st.bad THEN st
    ELSE IF n <= st.room THEN [room |-> st.room - n, bad |-> FALSE]
    ELSE [room |-> 0, bad |-> TRUE]

\* fwrite(ptr, size, nmemb, f): writes what fits, returns the number of whole
\* items written
fwrite(f, size, nmemb) ==
    LET bytes == IF size * nmemb <= f.room THEN size * nmemb ELSE f.room IN
    [file |-> [room |-> f.room - bytes], items |-> bytes \div size]

recv_into_writefunc_string_Overwrite(buf, ptr, size, nmemb) ==
    [sink |-> SubSeq(ptr, 1, size * nmemb), ret |-> size * nmemb]

\* easy::recv_into_writefunc_string_
recv_into_writefunc_string_(buf, ptr, size, nmemb) ==
    [sink |-> buf \o SubSeq(ptr, 1, size * nmemb), ret |-> size * nmemb]

\* easy::recv_into_writefunc_stream_
recv_into_writefunc_stream_(st, ptr, size, nmemb) ==
    [sink |-> ostream_write(st, size * nmemb), ret |-> size * nmemb]

\* easy::recv_into_writefunc_file_
recv_into_writefunc_file_(f, ptr, size, nmemb) ==
    LET r == fwrite(f, size, nmemb) IN [sink |-> r.file, ret |-> r.items]

\* The sinks during a call: the caller's three and the local of easy::get.
Sinks(local, localAlive) ==
    [buffer |-> buffer, local |-> local, localAlive |-> localAlive,
     stream |-> stream, file |-> file]

\* A defined callback call: r is what the callback did to the sink named data
\* and returned, accepted the bytes the sink took.
Wrote(S, data, r, accepted) ==
    [sinks |-> [S EXCEPT ![data] = r.sink], defined |-> TRUE,
     accepted |-> accepted, ret |-> r.ret]

\* libcurl hands one chunk to the installed callback, with the installed
\* CURLOPT_WRITEDATA, as callback(ptr, 1, Len(ptr), data).  The call is defined
\* when the data is an object alive and of the type the callback casts it to;
\* otherwise it writes through a dangling or mistyped pointer, the sinks'
\* contents are no longer tracked, and ub names the outcome.
Invoke(o, S, ptr, ub) ==
    IF ~(SinkKind(o.writedata) = FuncKind(o.writefunc)
         /\ (o.writedata = "local" => S.localAlive))
    THEN [sinks |-> S, defined |-> FALSE, accepted |-> 0,
          ret |-> IF FuncKind(o.writefunc) = "file" /\ ub = "short"
                  THEN 0 ELSE Len(ptr)]
    ELSE IF o.writedata = "stdout"
    THEN [sinks |-> S, defined |-> TRUE, accepted |-> Len(ptr), ret |-> Len(ptr)]
    ELSE IF o.writedata = "file"
    THEN Wrote(S, "file",
               IF o.writefunc = "default"
               THEN [sink |-> fwrite(S.file, 1, Len(ptr)).file,
                     ret |-> fwrite(S.file, 1, Len(ptr)).items]
               ELSE recv_into_writefunc_file_(S.file, ptr, 1, Len(ptr)),
               S.file.room - fwrite(S.file, 1, Len(ptr)).file.room)
    ELSE IF o.writedata = "stream"
    THEN Wrote(S, "stream",
               recv_into_writefunc_stream_(S.stream, ptr, 1, Len(ptr)),
               S.stream.room - ostream_write(S.stream, Len(ptr)).room)
    ELSE Wrote(S, o.writedata,
               recv_into_writefunc_string_(S[o.writedata], ptr, 1, Len(ptr)),
               Len(ptr))

\* The transfer before its first chunk.
\*   delivered  the bytes handed to the callback
\*   short      some defined call's sink accepted less than it was offered
\*   exact      every defined call returned the number of bytes accepted
\*   stale      some call was handed a sink whose lifetime had ended
\*   aborted    a callback returned something else than the size offered
\*   crashed    an undefined call ended the process
NothingDelivered(S) ==
    [sinks |-> S, delivered |-> <<>>, short |-> FALSE, exact |-> TRUE,
     stale |-> FALSE, aborted |-> FALSE, crashed |-> FALSE]

\* the transfer d after the callback call i on the chunk ptr
AfterCall(d, i, ptr, dead, ub) ==
    [sinks |-> i.sinks,
     delivered |-> d.delivered \o ptr,
     short |-> d.short \/ (i.defined /\ i.accepted < Len(ptr)),
     exact |-> d.exact /\ (i.defined => i.ret = i.accepted),
     stale |-> d.stale \/ dead,
     aborted |-> i.ret # Len(ptr),
     crashed |-> ~i.defined /\ ub = "crash"]

\* the transfer d offered one more chunk: nothing more is delivered once a
\* callback has aborted it
AfterChunk(d, o, ptr, ub) ==
    IF d.aborted \/ d.crashed THEN d
    ELSE AfterCall(d, Invoke(o, d.sinks, ptr, ub), ptr,
                   o.writedata = "local" /\ ~d.sinks.localAlive, ub)

\* curl_easy_perform delivering the chunks of t in order
Deliver(o, S, t, ub) ==
    LET after[k \in 0..Len(t)] ==
            IF k = 0 THEN NothingDelivered(S)
            ELSE AfterChunk(after[k - 1], o, t[k], ub)
    IN after[Len(t)]

\* the result of curl_easy_perform after the delivery d
PerformResult(d, o, net) ==
    d @@
    [code |-> IF d.aborted THEN CURLE_WRITE_ERROR ELSE net,
     matched |-> SinkKind(o.writedata) = FuncKind(o.writefunc)]

\* curl_easy_perform(handle_): its code is CURLE_WRITE_ERROR when a callback
\* aborted the transfer, and otherwise net, what the network did
curl_easy_perform(o, S, t, net, ub) == PerformResult(Deliver(o, S, t, ub), o, net)

\* curl_easy_setopt(handle_, CURLOPT_WRITEDATA / CURLOPT_WRITEFUNCTION, value)
curl_easy_setopt_write(o, option, value, code) ==
    IF code = CURLE_OK THEN [o EXCEPT ![option] = value] ELSE o

\* easy::set(option, const T*) and easy::set(option, Ret (*)(Args...))
EasySet(o, option, value, code) ==
    [opts |-> curl_easy_setopt_write(o, option, value, code), raised |-> CHECK(code)]

\* a call on the handle that threw before any transfer
Threw(o, S) ==
    [opts |-> o, sinks |-> S, ran |-> FALSE,
     outcome |-> "raised", matched |-> TRUE, delivered |-> <<>>,
     short |-> FALSE, exact |-> TRUE, stale |-> FALSE]

\* a call on the handle that ran the transfer p; outcome is "ok", "raised"
\* or "crashed"
Ran(o, p) ==
    [opts |-> o, sinks |-> p.sinks, ran |-> TRUE,
     outcome |-> IF p.crashed THEN "crashed"
                 ELSE IF CHECK(p.code) THEN "raised" ELSE "ok",
     matched |-> p.matched, delivered |-> p.delivered,
     short |-> p.short, exact |-> p.exact, stale |-> p.stale]

\* easy::perform: CHECK(curl_easy_perform(handle_))
EasyPerform(o, S, t, net, ub) ==
    Ran(o, curl_easy_perform(o, S, t, net, ub))

\* recv_into once set(CURLOPT_WRITEFUNCTION, fn) is through, b being its result
RecvInto_Perform(b, S, t, net, ub) ==
    IF b.raised THEN Threw(b.opts, S)
    ELSE EasyPerform(b.opts, S, t, net, ub)

\* recv_into once set(CURLOPT_WRITEDATA, sink) is through, a being its result
RecvInto_SetFunction(a, S, fn, c2, t, net, ub) ==
    IF a.raised THEN Threw(a.opts, S)
    ELSE RecvInto_Perform(EasySet(a.opts, "writefunc", fn, c2), S, t, net, ub)

EasyRecvInto_Unchecked(o, S, sink, fn, c1, c2, t, net, ub) ==
    EasyPerform(curl_easy_setopt_write(
                    curl_easy_setopt_write(o, "writedata", sink, c1),
                    "writefunc", fn, c2),
                S, t, net, ub)

\* easy::recv_into(sink): set(CURLOPT_WRITEDATA, sink);
\* set(CURLOPT_WRITEFUNCTION, fn); perform(); each of which may throw
EasyRecvInto(o, S, sink, fn, c1, c2, t, net, ub) ==
    RecvInto_SetFunction(EasySet(o, "writedata", sink, c1), S, fn, c2, t, net, ub)

Codes == {CURLE_OK, CURLE_FAILED}

\* the transfers of SpecRecv, whose bytes are all alike, and of SpecGet
TransfersA == TransfersOf({"a"})
TransfersAB == TransfersOf(Bytes)

\* The outcomes of a callback call that is not defined: it returns as if it
\* had written everything, returns short, or the process dies.  A defined
\* call has one outcome.
Undefined(o, localAlive) ==
    IF SinkKind(o.writedata) = FuncKind(o.writefunc)
       /\ (o.writedata = "local" => localAlive)
    THEN {"full"}
    ELSE {"full", "short", "crash"}

\* the process is running
Running == lastR.outcome # "crashed"

\* lastR and the sinks after the call r named op, whose curl_easy_setopt
\* calls returned the codes setopt, and which returns ret
Returned(op, setopt, r, ret) ==
    /\ opts' = r.opts
    /\ buffer' = r.sinks.buffer
    /\ stream' = r.sinks.stream
    /\ file' = r.sinks.file
    /\ lastR' = [op |-> op, outcome |-> r.outcome, setopt |-> setopt,
                 ran |-> r.ran, matched |-> r.matched, delivered |-> r.delivered,
                 ret |-> ret, short |-> r.short, exact |-> r.exact,
                 stale |-> r.stale]

\* the caller's std::string is let grow to MaxBuf bytes
Fits(r) == Len(r.sinks.buffer) <= MaxBuf

\* h.perform();  libcurl delivers a transfer of T
Perform(T) ==
    /\ UNCHANGED notRecv
    /\ Running
    /\ \E t \in T, net \in Codes, ub \in Undefined(opts, FALSE) :
       \E r \in {EasyPerform(opts, Sinks(<<>>, FALSE), t, net, ub)} :
        Fits(r) /\ Returned("perform", <<>>, r, <<>>)

\* h.reset();
ResetOpts ==
    /\ UNCHANGED notRecv
    /\ Running
    /\ opts' = DefaultOpts
    /\ lastR' = [NoCall EXCEPT !.op = "reset"]
    /\ UNCHANGED <<buffer, stream, file>>

\* h.recv_into(sink) with the callback fn; the transfer, the network's code
\* and the outcome of an undefined call are drawn where the call gets there
RecvInto(op, T, sink, fn, localAlive) ==
    \E c1 \in Codes :
    \E c2 \in IF c1 = CURLE_OK THEN Codes ELSE {CURLE_OK} :
    \E t \in IF c1 = CURLE_OK /\ c2 = CURLE_OK THEN T ELSE {<<>>} :
    \E net \in IF c1 = CURLE_OK /\ c2 = CURLE_OK THEN Codes ELSE {CURLE_OK} :
    \E ub \in Undefined([writedata |-> sink, writefunc |-> fn], localAlive) :
    \E r \in {EasyRecvInto(opts, Sinks(<<>>, localAlive), sink, fn,
                           c1, c2, t, net, ub)} :
        /\ Fits(r)
        /\ Returned(op, IF c1 = CURLE_OK THEN <<c1, c2>> ELSE <<c1>>, r,
                    IF r.outcome = "ok" THEN r.sinks.local ELSE <<>>)

\* std::string s = h.get();  the local buffer lives until get returns
Get(T) ==
    /\ UNCHANGED notRecv
    /\ Running
    /\ RecvInto("get", T, "local", "recv_into_writefunc_string_", TRUE)

\* h.recv_into(buffer);
RecvIntoString(T) ==
    /\ UNCHANGED notRecv
    /\ Running
    /\ RecvInto("recv_into(string)", T, "buffer", "recv_into_writefunc_string_", FALSE)

\* h.recv_into(stream);
RecvIntoStream(T) ==
    /\ UNCHANGED notRecv
    /\ Running
    /\ RecvInto("recv_into(stream)", T, "stream", "recv_into_writefunc_stream_", FALSE)

\* h.recv_into(file);
RecvIntoFile(T) ==
    /\ UNCHANGED notRecv
    /\ Running
    /\ RecvInto("recv_into(FILE)", T, "file", "recv_into_writefunc_file_", FALSE)

InitRecv == EasyStart /\ RecvStart /\ ListStart /\ CheckStart

\* SpecRecv: the three kinds of sink, the bytes all alike
NextRecv ==
    \/ Perform(TransfersA)
    \/ ResetOpts
    \/ Get(TransfersA)
    \/ RecvIntoString(TransfersA)
    \/ RecvIntoStream(TransfersA)
    \/ RecvIntoFile(TransfersA)

SpecRecv == InitRecv /\ [][NextRecv]_vars

\* SpecGet: the std::string sinks, the bytes told apart
NextGet ==
    \/ Perform(TransfersAB)
    \/ ResetOpts
    \/ Get(TransfersAB)
    \/ RecvIntoString(TransfersAB)

SpecGet == InitRecv /\ [][NextGet]_vars

---------------------------------------------------------------------------
(* Claims about receiving, under SpecRecv and SpecGet *)

\* C2: once get() or recv_into(sink) has returned, normally or by raising,
\* the native handle no longer holds the sink as its write target, and no
\* transfer delivers bytes to a sink whose lifetime has ended.
C2_SinkHeldOnlyDuringCall ==
    /\ opts.writedata = "stdout"
    /\ ~lastR.stale

\* C3, as claimed: recv_into(buffer) on a successful transfer leaves the
\* buffer equal to the bytes delivered during that call, whatever it held
\* before; get() returns exactly those bytes.
C3_OriginalStep ==
    /\ (lastR'.op = "recv_into(string)" /\ lastR'.outcome = "ok") =>
            buffer' = lastR'.delivered
    /\ (lastR'.op = "get" /\ lastR'.outcome = "ok") =>
            lastR'.ret = lastR'.delivered

C3_BufferIsDelivered == [][C3_OriginalStep]_vars

C3_Step ==
    /\ (lastR'.op = "recv_into(string)" /\ lastR'.outcome = "ok") =>
            buffer' = buffer \o lastR'.delivered
    /\ (lastR'.op = "get" /\ lastR'.outcome = "ok") =>
            lastR'.ret = lastR'.delivered

\* C3, amended: recv_into(buffer) on a successful transfer leaves the buffer
\* equal to what it held before the call followed by the bytes delivered
\* during the call, in arrival order; get() returns exactly those bytes.
C3_BufferIsAppended == [][C3_Step]_vars

\* a transfer of two bytes was received into a buffer that was not empty
C3_Witness ==
    /\ lastR.op = "recv_into(string)"
    /\ lastR.outcome = "ok"
    /\ Len(lastR.delivered) >= 2
    /\ Len(buffer) > Len(lastR.delivered)

\* C4: every write callback returns the number of bytes its sink accepted,
\* and a call in which a sink accepted fewer bytes than offered raises.
C4_ShortWriteRaises ==
    /\ lastR.exact
    /\ lastR.short => lastR.outcome = "raised"

RecvOps == {"get", "recv_into(string)", "recv_into(stream)", "recv_into(FILE)"}

---------------------------------------------------------------------------
(* curl::list *)

\* the head of the next list libcurl allocates: the lowest not used yet
FreshList ==
    LET unused == {c \in ListIds : slists[c].state = "unused"} IN
    {c \in unused : \A d \in unused : c <= d}

\* curl_slist_append(list, value).  On success it returns the head of the
\* list with value added at its end, a new head when list is null.  When it
\* cannot allocate it returns null and leaves list as it is.
curl_slist_append(list, value, ok, fresh) ==
    IF ~ok THEN [slists |-> slists, ret |-> NULL]
    ELSE IF list = NULL
    THEN [slists |-> [slists EXCEPT ![fresh] =
                         [state |-> "live", items |-> <<value>>]],
          ret |-> fresh]
    ELSE [slists |-> [slists EXCEPT ![list].items = Append(@, value)],
          ret |-> list]

\* curl_slist_free_all(list): frees every node of list; on null it does nothing
curl_slist_free_all(list) ==
    IF list = NULL THEN slists
    ELSE [slists EXCEPT ![list] = [state |-> "freed", items |-> <<>>]]

\* list::operator*: the raw chain, here by its entries
Deref == IF list_ = NULL THEN <<>> ELSE slists[list_].items

\* list::append(const char*): list_ = curl_slist_append(list_, value)
ListAppend(value, ok, fresh) == curl_slist_append(list_, value, ok, fresh)

\* the object exists and the bounds leave room for one more value
CanAppend(ok) ==
    /\ lastL.op # "~list"
    /\ Len(appended) < MaxAppends
    /\ (ok /\ list_ = NULL) => FreshList # {}

\* the state after an append of value that libcurl answered with r
Appended(op, value, ok, r) ==
    /\ list_' = r.ret
    /\ slists' = r.slists
    /\ appended' = IF ok THEN Append(appended, value) ELSE appended
    /\ lastL' = [op |-> op, ok |-> ok]

\* l.append(value); with a const char* or a std::string&
AppendValue ==
    /\ UNCHANGED notList
    /\ \E value \in HeaderValues, ok \in BOOLEAN, fresh \in FreshList \cup {NULL} :
        /\ CanAppend(ok)
        /\ fresh = NULL <=> FreshList = {}
        /\ Appended("append", value, ok, ListAppend(value, ok, fresh))

\* l += value; with a const char* or a const std::string&
PlusEquals ==
    /\ UNCHANGED notList
    /\ \E value \in HeaderValues, ok \in BOOLEAN, fresh \in FreshList \cup {NULL} :
        /\ CanAppend(ok)
        /\ fresh = NULL <=> FreshList = {}
        /\ Appended("+=", value, ok, ListAppend(value, ok, fresh))

\* list::~list: curl_slist_free_all(list_)
DestroyList ==
    /\ UNCHANGED notList
    /\ lastL.op # "~list"
    /\ slists' = curl_slist_free_all(list_)
    /\ list_' = NULL
    /\ lastL' = [op |-> "~list", ok |-> TRUE]
    /\ UNCHANGED appended

InitList == EasyStart /\ RecvStart /\ ListStart /\ CheckStart

NextList ==
    \/ AppendValue
    \/ PlusEquals
    \/ DestroyList

SpecList == InitList /\ [][NextList]_vars

\* C5: after any sequence of append and += calls, failed ones included,
\* dereferencing the list yields all the entries appended so far in append
\* order, and no list libcurl allocated is left unreachable and unfreed.
C5_DerefHoldsAllAppended ==
    /\ lastL.op # "~list" => Deref = appended
    /\ \A c \in ListIds : slists[c].state = "live" => c = list_

---------------------------------------------------------------------------
(* CHECK, curl::error and add_cookie *)

\* Text is a sequence of characters, so that formatting, truncation and
\* containment are computed character by character.
Digits == <<"0", "1", "2", "3", "4", "5", "6", "7", "8", "9">>

RECURSIVE Dec(_)
\* printf's %d of a non-negative int
Dec(n) ==
    IF n < Len(Digits) THEN <<Digits[n + 1]>>
    ELSE Dec(n \div Len(Digits)) \o <<Digits[(n % Len(Digits)) + 1]>>

\* the output of the format "File: %s - Line: %d\n%s\n----------\n%s\n"
Format(path, line, msg, errstr) ==
    <<"F", "i", "l", "e", ":", " ">> \o path
      \o <<" ", "-", " ", "L", "i", "n", "e", ":", " ">> \o Dec(line)
      \o <<"\n">> \o msg
      \o <<"\n", "-", "-", "-", "-", "-", "-", "-", "-", "-", "-", "\n">>
      \o errstr \o <<"\n">>

\* snprintf(buf, size, ...): at most size - 1 characters of the output are
\* stored, followed by the terminating null
snprintf(size, output) ==
    IF size = 0 THEN <<>>
    ELSE SubSeq(output, 1, IF Len(output) < size - 1 THEN Len(output) ELSE size - 1)

\* size = snprintf(nullptr, 0, ...); buf_ = malloc(size + 1);
\* snprintf(buf_, size, ...)
Formatted(output) == snprintf(Len(output), output)

\* the codes libcurl returns to the checked calls
CheckCodes == {CURLE_OK, CURLE_FAILED, CURLE_WRITE_ERROR}

\* curl_easy_strerror, for the codes above
curl_easy_strerror(code) ==
    CASE code = CURLE_OK ->
           <<"N", "o", " ", "e", "r", "r", "o", "r">>
      [] code = CURLE_FAILED ->
           <<"U", "n", "s", "u", "p", "p", "o", "r", "t", "e", "d", " ",
             "p", "r", "o", "t", "o", "c", "o", "l">>
      [] code = CURLE_WRITE_ERROR ->
           <<"F", "a", "i", "l", "e", "d", " ", "w", "r", "i", "t", "i",
             "n", "g", " ", "r", "e", "c", "e", "i", "v", "e", "d", " ",
             "d", "a", "t", "a", " ", "t", "o", " ", "d", "i", "s", "k",
             "/", "a", "p", "p", "l", "i", "c", "a", "t", "i", "o", "n">>

\* error::error(msg, file, line) applied to CHECK's arguments: the message
\* without the description of the code
ErrorCtor_NoCode(msg, code, path, line) ==
    Formatted(<<"F", "i", "l", "e", ":", " ">> \o path
                \o <<" ", "-", " ", "L", "i", "n", "e", ":", " ">> \o Dec(line)
                \o <<"\n">> \o msg \o <<"\n">>)

\* error::error(msg, code, file, line); the result is what() returns
ErrorCtor(msg, code, path, line) ==
    Formatted(Format(path, line, msg, curl_easy_strerror(code)))

\* the operations whose body is one CHECK
SetOps == {"set(long)", "set(string)", "set(T*)", "set(function)"}
CheckedOps == SetOps \cup {"pause", "perform"}
CookieOps == {"add_cookie(const char*)", "add_cookie(string)"}

\* __FILE__ of the two translation units
CppFile == <<"c", "u", "r", "l", "+", "+", ".", "c", "p", "p">>
HFile == <<"c", "u", "r", "l", "+", "+", ".", "h">>

\* #x, __FILE__ and __LINE__ of each CHECK(x)
CallSite(op) ==
    CASE op = "set(long)" ->
           [file |-> CppFile, line |-> 71, text |->
              <<"c", "u", "r", "l", "_", "e", "a", "s", "y", "_", "s", "e",
                "t", "o", "p", "t", "(", "h", "a", "n", "d", "l", "e", "_",
                ",", " ", "o", "p", "t", "i", "o", "n", ",", " ", "v", "a",
                "l", "u", "e", ")">>]
      [] op = "set(string)" ->
           [file |-> CppFile, line |-> 76, text |->
              <<"c", "u", "r", "l", "_", "e", "a", "s", "y", "_", "s", "e",
                "t", "o", "p", "t", "(", "h", "a", "n", "d", "l", "e", "_",
                ",", " ", "o", "p", "t", "i", "o", "n", ",", " ", "v", "a",
                "l", "u", "e", ".", "c", "_", "s", "t", "r", "(", ")", ")">>]
      [] op = "add_cookie(const char*)" ->
           [file |-> CppFile, line |-> 81, text |->
              <<"c", "u", "r", "l", "_", "e", "a", "s", "y", "_", "s", "e",
                "t", "o", "p", "t", "(", "h", "a", "n", "d", "l", "e", "_",
                ",", " ", "C", "U", "R", "L", "O", "P", "T", "_", "C", "O",
                "O", "K", "I", "E", "L", "I", "S", "T", ",", " ", "c", "o",
                "o", "k", "i", "e", ")">>]
      [] op = "add_cookie(string)" ->
           [file |-> CppFile, line |-> 86, text |->
              <<"c", "u", "r", "l", "_", "e", "a", "s", "y", "_", "s", "e",
                "t", "o", "p", "t", "(", "h", "a", "n", "d", "l", "e", "_",
                ",", " ", "C", "U", "R", "L", "O", "P", "T", "_", "C", "O",
                "O", "K", "I", "E", "L", "I", "S", "T", ",", " ", "c", "o",
                "o", "k", "i", "e", ".", "c", "_", "s", "t", "r", "(", ")",
                ")">>]
      [] op = "pause" ->
           [file |-> CppFile, line |-> 124, text |->
              <<"c", "u", "r", "l", "_", "e", "a", "s", "y", "_", "p", "a",
                "u", "s", "e", "(", "h", "a", "n", "d", "l", "e", "_", ",",
                " ", "b", "i", "t", "m", "a", "s", "k", ")">>]
      [] op = "perform" ->
           [file |-> CppFile, line |-> 129, text |->
              <<"c", "u", "r", "l", "_", "e", "a", "s", "y", "_", "p", "e",
                "r", "f", "o", "r", "m", "(", "h", "a", "n", "d", "l", "e",
                "_", ")">>]
      [] op = "set(T*)" ->
           [file |-> HFile, line |-> 198, text |->
              <<"c", "u", "r", "l", "_", "e", "a", "s", "y", "_", "s", "e",
                "t", "o", "p", "t", "(", "h", "a", "n", "d", "l", "e", "_",
                ",", " ", "o", "p", "t", "i", "o", "n", ",", " ", "v", "a",
                "l", "u", "e", ")">>]
      [] op = "set(function)" ->
           [file |-> HFile, line |-> 203, text |->
              <<"c", "u", "r", "l", "_", "e", "a", "s", "y", "_", "s", "e",
                "t", "o", "p", "t", "(", "h", "a", "n", "d", "l", "e", "_",
                ",", " ", "o", "p", "t", "i", "o", "n", ",", " ", "v", "a",
                "l", "u", "e", ")">>]

\* throw error(#x, code, __FILE__, __LINE__)
Throw(site, code) ==
    [raised |-> TRUE,
     what |-> ErrorCtor(site.text, code, site.file, site.line)]

\* CHECK(x) where x returned code
Checked(op, code) ==
    IF CHECK(code) THEN Throw(CallSite(op), code)
    ELSE [raised |-> FALSE, what |-> <<>>]

\* cookie names and values, and the order of characters
CookieNames == {<<"a">>, <<"a", "b">>, <<"b">>}
CookieValues == {<<"1">>, <<"2">>}
Alphabet == <<"1", "2", "a", "b">>

Ord(c) == CHOOSE i \in DOMAIN Alphabet : Alphabet[i] = c

\* std::less<std::string>
LexLess(s, t) ==
    \E i \in 1..(Len(s) + 1) :
        /\ i <= Len(t)
        /\ \A j \in 1..(i - 1) : s[j] = t[j]
        /\ i <= Len(s) => Ord(s[i]) < Ord(t[i])

\* std::map<std::string, std::string> of at most MaxPairs pairs
CookieMaps ==
    UNION {[K -> CookieValues] :
             K \in {S \in SUBSET CookieNames : Cardinality(S) <= MaxPairs}}

RECURSIVE InOrder(_)
\* for(auto&& c : cookiemap): the keys from begin() to end()
InOrder(K) ==
    IF K = {} THEN <<>>
    ELSE LET first == CHOOSE k \in K : \A j \in K \ {k} : LexLess(k, j)
         IN  <<first>> \o InOrder(K \ {first})

\* cookie.append("Set-Cookie: "); append(name); push_back('=');
\* append(value); push_back(';')
CookieLine(name, value) ==
    <<"S", "e", "t", "-", "C", "o", "o", "k", "i", "e", ":", " ">>
      \o name \o <<"=">> \o value \o <<";">>

\* the single cookies callers pass
CookieLines == {CookieLine(n, v) : n \in CookieNames, v \in CookieValues}

\* curl_easy_setopt(handle_, CURLOPT_COOKIELIST, line) returning code
curl_easy_setopt_cookie(jar, line, code) ==
    IF code = CURLE_OK THEN jar \cup {line} ELSE jar

\* an add_cookie(map) that checks each call as the single overloads do
AddCookieMap_Checked(m, order, cs) ==
    LET n == Len(order)
        bad == {i \in 1..n : cs[i] # CURLE_OK}
        last == IF bad = {} THEN n ELSE CHOOSE i \in bad : \A j \in bad : i <= j
    IN  [raised |-> bad # {},
         calls |-> [i \in 1..last |->
                      [arg |-> CookieLine(order[i], m[order[i]]), code |-> cs[i]]]]

\* easy::add_cookie(map): one unchecked call per pair, in the map's order
AddCookieMap(m, order, cs) ==
    [raised |-> FALSE,
     calls |-> [i \in 1..Len(order) |->
                  [arg |-> CookieLine(order[i], m[order[i]]), code |-> cs[i]]]]

\* the cookie lines libcurl holds after the calls
Accepted(jar, calls) ==
    jar \cup {calls[i].arg : i \in {j \in DOMAIN calls : calls[j].code = CURLE_OK}}

CheckedCall(op) ==
    /\ UNCHANGED notCheck
    /\ \E code \in CheckCodes :
        \E r \in {Checked(op, code)} :
            lastC' = [NoCheck EXCEPT !.op = op, !.code = code,
                                     !.raised = r.raised, !.what = r.what]
    /\ UNCHANGED cookielist

\* easy::set(CURLoption, long)
SetLong == CheckedCall("set(long)")
\* easy::set(CURLoption, const std::string&)
SetString == CheckedCall("set(string)")
\* easy::set(CURLoption, const T*)
SetPointer == CheckedCall("set(T*)")
\* easy::set(CURLoption, Ret (*)(Args...))
SetFunction == CheckedCall("set(function)")
\* easy::pause
Pause == CheckedCall("pause")
\* easy::perform
CheckedPerform == CheckedCall("perform")

AddCookieLine(op) ==
    /\ UNCHANGED notCheck
    /\ \E line \in CookieLines, code \in Codes :
        \E r \in {Checked(op, code)} :
            /\ lastC' = [NoCheck EXCEPT !.op = op, !.code = code,
                                        !.raised = r.raised, !.what = r.what,
                                        !.cookie = line,
                                        !.calls = <<[arg |-> line, code |-> code]>>]
            /\ cookielist' = curl_easy_setopt_cookie(cookielist, line, code)

\* easy::add_cookie(const char*)
AddCookie == AddCookieLine("add_cookie(const char*)")
\* easy::add_cookie(const std::string&)
AddCookieString == AddCookieLine("add_cookie(string)")

\* easy::add_cookie(const std::map<std::string, std::string>&)
AddCookies ==
    /\ UNCHANGED notCheck
    /\ \E m \in CookieMaps :
        \E cs \in [1..Cardinality(DOMAIN m) -> Codes] :
            \E r \in {AddCookieMap(m, InOrder(DOMAIN m), cs)} :
                /\ lastC' = [NoCheck EXCEPT !.op = "add_cookie(map)",
                                            !.raised = r.raised,
                                            !.map = m, !.calls = r.calls]
                /\ cookielist' = Accepted(cookielist, r.calls)

InitCheck == EasyStart /\ RecvStart /\ ListStart /\ CheckStart

NextCheck ==
    \/ SetLong
    \/ SetString
    \/ SetPointer
    \/ SetFunction
    \/ Pause
    \/ CheckedPerform
    \/ AddCookie
    \/ AddCookieString
    \/ AddCookies

SpecCheck == InitCheck /\ [][NextCheck]_vars

\* text contains part as a contiguous run of characters
Contains(text, part) ==
    \E i \in 0..(Len(text) - Len(part)) :
        SubSeq(text, i + 1, i + Len(part)) = part

\* the number of keys of m that std::less orders before k
Rank(m, k) == Cardinality({j \in DOMAIN m : LexLess(j, k)})

\* C8: add_cookie(map) of n pairs makes exactly n option-setting calls, one
\* per pair in key order, each with "Set-Cookie: <name>=<value>;", and never
\* raises whatever the calls report; the single-cookie overloads make
\* exactly one call, with the caller's cookie, and raise exactly when it
\* reports non-success.
C8_AddCookieCalls ==
    /\ lastC.op = "add_cookie(map)" =>
        /\ ~lastC.raised
        /\ Len(lastC.calls) = Cardinality(DOMAIN lastC.map)
        /\ \A k \in DOMAIN lastC.map :
            lastC.calls[Rank(lastC.map, k) + 1].arg =
                <<"S", "e", "t", "-", "C", "o", "o", "k", "i", "e", ":",
                  " ">>
                  \o k \o <<"=">> \o lastC.map[k] \o <<";">>
    /\ lastC.op \in CookieOps =>
        /\ Len(lastC.calls) = 1
        /\ lastC.calls[1].arg = lastC.cookie
        /\ lastC.raised <=> lastC.calls[1].code # CURLE_OK

\* add_cookie(map) went through two pairs although the first call failed
C8_Witness ==
    /\ lastC.op = "add_cookie(map)"
    /\ Cardinality(DOMAIN lastC.map) = 2
    /\ Len(lastC.calls) = 2
    /\ lastC.calls[1].code # CURLE_OK
    /\ lastC.calls[2].code = CURLE_OK
    /\ ~lastC.raised

\* C9: set (all four value kinds), pause and perform return silently exactly
\* when the underlying call reports success, and otherwise raise an error
\* whose what() contains the file and the line of the failing call, the
\* call's text and the whole description of the code.
C9_RaisesWithFullMessage ==
    lastC.op \in CheckedOps =>
        /\ lastC.raised <=> lastC.code # CURLE_OK
        /\ lastC.raised =>
            /\ Contains(lastC.what, CallSite(lastC.op).file)
            /\ Contains(lastC.what, Dec(CallSite(lastC.op).line))
            /\ Contains(lastC.what, CallSite(lastC.op).text)
            /\ Contains(lastC.what, curl_easy_strerror(lastC.code))

\* perform raised for a write error
C9_Witness ==
    /\ lastC.op = "perform"
    /\ lastC.code = CURLE_WRITE_ERROR
    /\ lastC.raised
    /\ lastC.what # <<>>

=============================================================================
